---- MODULE Spec2Model ----
\* Model of process_small_files.py: size-aware grouping of remote objects
\* (group_blobs_by_size) and the ThreadPoolExecutor run that downloads the
\* groups (download_all_files, download_group, download_blob).
EXTENDS Integers, Sequences, FiniteSets, TLC

\* ---------------------------------------------------------------- bounds
MaxBlobs == 2          \* longest listing in a full run
MaxGroupBlobs == 4     \* longest listing handed to the grouping alone
MaxSizeMb == 1         \* largest max_size_mb
MaxSizeHalves == 3     \* object sizes are 0 .. MaxSizeHalves half-megabytes
MaxThreads == 2        \* largest num_threads

\* ---------------------------------------------------------------- constants
\* Object sizes are drawn in steps of half a megabyte.
HalfMB == (1024 * 1024) \div 2
\* The group index an error line carries: none.
NoGroup == 0

Sizes == {k * HalfMB : k \in 0..MaxSizeHalves}

\* A location string, as its characters.
GoodPath == <<"g", "s", ":", "/", "/", "b", "/", "p">>
BadPath == <<"s", "3", ":", "/", "/", "b", "/", "p">>
GcsPaths == {GoodPath, BadPath}
Scheme == <<"g", "s", ":", "/", "/">>
DestinationFolder == <<"/", "d">>
\* The object names of the bucket listing: fs.ls returns pairwise distinct paths.
Names == <<"u", "v", "w", "x", "y", "z">>

NoExc == [kind |-> "none", blob |-> 0]

VARIABLES
    gcs_path,        \* argument: the location string
    max_size_mb,     \* argument: the group budget in megabytes
    num_threads,     \* argument: the worker count
    remote,          \* remote[b]: size in bytes of the b-th object of the bucket listing
    dest_exists,     \* the destination folder exists
    io,              \* the I/O operations performed so far
    pc,              \* position of the main thread in download_all_files
    error,           \* the exception download_all_files ended with, if any
    blobs,           \* local blobs: the listing
    grouped_blobs,   \* local grouped_blobs
    futures,         \* the futures made by submit, in order (runs: times started)
    work_queue,      \* the executor's queue of work items (indices into futures)
    workers,         \* the executor's threads
    idle,            \* the executor's idle semaphore
    files,           \* files[d]: how many times destination file d was written in full
    failed_transfers, \* the objects whose transfer raised
    collected,       \* the futures as_completed has yielded, in order
    stdout           \* the error lines printed by the collection loop

vars == <<gcs_path, max_size_mb, num_threads, remote, dest_exists, io, pc, error,
          blobs, grouped_blobs, futures, work_queue, workers, idle, files,
          failed_transfers, collected, stdout>>

\* ---------------------------------------------------------------- helpers
Range(s) == {s[i] : i \in DOMAIN s}

RECURSIVE SumSizes(_, _)
SumSizes(group, size) ==
    IF group = <<>> THEN 0 ELSE size[Head(group)] + SumSizes(Tail(group), size)

RECURSIVE Concat(_)
Concat(groups) ==
    IF groups = <<>> THEN <<>> ELSE Head(groups) \o Concat(Tail(groups))

\* ---------------------------------------------------------------- parse_gcs_path
StartsWith(s, p) == Len(s) >= Len(p) /\ SubSeq(s, 1, Len(p)) = p

\* urlparse(...).netloc: the characters after the scheme up to the next "/".
RECURSIVE Netloc(_)
Netloc(s) ==
    IF s = <<>> \/ Head(s) = "/" THEN <<>> ELSE <<Head(s)>> \o Netloc(Tail(s))

\* str.lstrip('/')
RECURSIVE LStripSlash(_)
LStripSlash(s) ==
    IF s # <<>> /\ Head(s) = "/" THEN LStripSlash(Tail(s)) ELSE s

ParseGcsPath(s) ==
    LET rest == SubSeq(s, Len(Scheme) + 1, Len(s))
        netloc == Netloc(rest)
    IN  [bucket_name |-> netloc,
         prefix |-> LStripSlash(SubSeq(rest, Len(netloc) + 1, Len(rest)))]

\* ---------------------------------------------------------------- list_blobs, download_group paths
\* The path fs.ls(f"{bucket_name}/{prefix}") returns for the b-th object.
BlobPath(b, loc) == loc.bucket_name \o <<"/">> \o loc.prefix \o <<"/", Names[b]>>

\* os.path.relpath(blob, start=f'{bucket_name}/')
RelPath(path, start) ==
    IF StartsWith(path, start) THEN SubSeq(path, Len(start) + 1, Len(path))
    ELSE <<".", ".", "/">> \o path

\* os.path.join(destination_folder, relative_path)
DestinationFileName(b, loc) ==
    DestinationFolder \o <<"/">> \o RelPath(BlobPath(b, loc), loc.bucket_name \o <<"/">>)

\* ---------------------------------------------------------------- group_blobs_by_size
MaxSizeBytes(mb) == mb * 1024 * 1024

\* Mutant: the test forgets the size of the current group.
ShouldCloseBlobOnly(current_size, blob_size, max_size_bytes) ==
    blob_size > max_size_bytes

\* Mutant: a group that would be exactly full is closed too.
ShouldCloseAtBudget(current_size, blob_size, max_size_bytes) ==
    current_size + blob_size >= max_size_bytes

\* Mutant: the current group is closed before every object.
ShouldCloseAlways(current_size, blob_size, max_size_bytes) == TRUE

ShouldClose(current_size, blob_size, max_size_bytes) ==
    current_size + blob_size > max_size_bytes

\* Mutant: the running size is never increased.
GroupLoopBodyNoSize(st, blob, blob_size, max_size_bytes) ==
    LET closed == IF ShouldClose(st.current_size, blob_size, max_size_bytes)
                  THEN [grouped_blobs |-> Append(st.grouped_blobs, st.current_group),
                        current_group |-> <<>>,
                        current_size  |-> 0]
                  ELSE st
    IN  [grouped_blobs |-> closed.grouped_blobs,
         current_group |-> Append(closed.current_group, blob),
         current_size  |-> closed.current_size]

\* Mutant: the closed group is not emptied, so its members stay in the next one.
GroupLoopBodyKeepsGroup(st, blob, blob_size, max_size_bytes) ==
    LET closed == IF ShouldClose(st.current_size, blob_size, max_size_bytes)
                  THEN [grouped_blobs |-> Append(st.grouped_blobs, st.current_group),
                        current_group |-> st.current_group,
                        current_size  |-> 0]
                  ELSE st
    IN  [grouped_blobs |-> closed.grouped_blobs,
         current_group |-> Append(closed.current_group, blob),
         current_size  |-> closed.current_size + blob_size]

\* One iteration of the for loop over blobs.
GroupLoopBody(st, blob, blob_size, max_size_bytes) ==
    LET closed == IF ShouldClose(st.current_size, blob_size, max_size_bytes)
                  THEN [grouped_blobs |-> Append(st.grouped_blobs, st.current_group),
                        current_group |-> <<>>,
                        current_size  |-> 0]
                  ELSE st
    IN  [grouped_blobs |-> closed.grouped_blobs,
         current_group |-> Append(closed.current_group, blob),
         current_size  |-> closed.current_size + blob_size]

RECURSIVE GroupLoop(_, _, _, _)
GroupLoop(st, rest, size, max_size_bytes) ==
    IF rest = <<>> THEN st
    ELSE GroupLoop(GroupLoopBody(st, Head(rest), size[Head(rest)], max_size_bytes),
                   Tail(rest), size, max_size_bytes)

\* Mutant: the group still open at the end of the pass is forgotten.
FinalGroupsNoTail(st) == st.grouped_blobs

\* Mutant: the open group is appended even when it is empty.
FinalGroupsAlways(st) == Append(st.grouped_blobs, st.current_group)

\* The trailing "if current_group: grouped_blobs.append(current_group)".
FinalGroups(st) ==
    IF st.current_group # <<>> THEN Append(st.grouped_blobs, st.current_group)
    ELSE st.grouped_blobs

GroupBlobsBySize(bs, size, mb) ==
    FinalGroups(GroupLoop([grouped_blobs |-> <<>>, current_group |-> <<>>,
                           current_size |-> 0],
                          bs, size, MaxSizeBytes(mb)))

\* ---------------------------------------------------------------- initial states
RunInputs ==
    /\ gcs_path \in GcsPaths
    /\ max_size_mb \in 1..MaxSizeMb
    /\ num_threads \in 1..MaxThreads
    /\ remote \in UNION {[1..n -> Sizes] : n \in 0..MaxBlobs}
    /\ dest_exists \in BOOLEAN

Locals ==
    /\ io = {}
    /\ error = "none"
    /\ blobs = <<>>
    /\ grouped_blobs = <<>>
    /\ futures = <<>>
    /\ work_queue = <<>>
    /\ workers = <<>>
    /\ idle = 0
    /\ files = [d \in {DestinationFileName(b, ParseGcsPath(GoodPath)) : b \in DOMAIN remote} |-> 0]
    /\ failed_transfers = {}
    /\ collected = <<>>
    /\ stdout = <<>>

Init == RunInputs /\ Locals /\ pc = "start"

\* A call of group_blobs_by_size alone, on a listing of up to MaxGroupBlobs objects.
GroupInputs ==
    /\ gcs_path = GoodPath
    /\ max_size_mb \in 1..MaxSizeMb
    /\ num_threads = 1
    /\ remote \in UNION {[1..n -> Sizes] : n \in 0..MaxGroupBlobs}
    /\ dest_exists = TRUE

GroupInit == GroupInputs /\ Locals /\ pc = "group_call"

\* Every size lookup succeeds (one fs.info per object): the groups are returned.
GroupCall ==
    /\ pc = "group_call"
    /\ blobs' = [b \in DOMAIN remote |-> b]
    /\ io' = io \cup (IF Len(remote) > 0 THEN {"info"} ELSE {})
    /\ grouped_blobs' = GroupBlobsBySize(blobs', remote, max_size_mb)
    /\ pc' = "group_returned"
    /\ UNCHANGED <<gcs_path, max_size_mb, num_threads, remote, dest_exists, error,
                   futures, work_queue, workers, idle, files, failed_transfers,
                   collected, stdout>>

\* get_blob_size raises for one of the objects after fs.info was called: the
\* exception leaves group_blobs_by_size, which returns nothing.
GroupCallFails ==
    /\ pc = "group_call"
    /\ remote # <<>>
    /\ blobs' = [b \in DOMAIN remote |-> b]
    /\ io' = io \cup {"info"}
    /\ error' = "MetadataError"
    /\ pc' = "group_raised"
    /\ UNCHANGED <<gcs_path, max_size_mb, num_threads, remote, dest_exists, grouped_blobs,
                   futures, work_queue, workers, idle, files, failed_transfers,
                   collected, stdout>>

\* ---------------------------------------------------------------- download_all_files: up to the grouping
\* "if not os.path.exists(destination_folder): os.makedirs(destination_folder)"
MakeDestination ==
    /\ dest_exists' = TRUE
    /\ io' = io \cup (IF dest_exists THEN {"exists"} ELSE {"exists", "makedirs"})

Raise(kind) ==
    /\ pc' = "raised"
    /\ error' = kind
    /\ UNCHANGED <<gcs_path, max_size_mb, num_threads, remote, blobs, grouped_blobs,
                   futures, work_queue, workers, idle, files, failed_transfers, collected, stdout>>

\* parse_gcs_path raises ValueError.
StartBadPath ==
    /\ pc = "start"
    /\ ~StartsWith(gcs_path, Scheme)
    /\ MakeDestination
    /\ Raise("ValueError")

\* fs.ls raises.
StartListFails ==
    /\ pc = "start"
    /\ StartsWith(gcs_path, Scheme)
    /\ dest_exists' = TRUE
    /\ io' = io \cup (IF dest_exists THEN {"exists"} ELSE {"exists", "makedirs"}) \cup {"ls"}
    /\ Raise("ListingError")

\* Mutant: the object is skipped and the groups built so far are used.
SizeErrorSkipsBlob(built) ==
    [pc |-> IF built = <<>> THEN "collect" ELSE "submit", grouped_blobs |-> built]

\* The exception of get_blob_size leaves group_blobs_by_size and
\* download_all_files: grouped_blobs is never assigned.
SizeErrorOutcome(built) == [pc |-> "raised", grouped_blobs |-> <<>>]

\* get_blob_size raises for the k-th object during the grouping pass.
StartSizeFails ==
    /\ pc = "start"
    /\ StartsWith(gcs_path, Scheme)
    /\ dest_exists' = TRUE
    /\ io' = io \cup (IF dest_exists THEN {"exists"} ELSE {"exists", "makedirs"})
                \cup {"ls", "info"}
    /\ error' = "MetadataError"
    /\ blobs' = [b \in DOMAIN remote |-> b]
    /\ \E k \in DOMAIN remote :
        LET out == SizeErrorOutcome(
                       GroupBlobsBySize(SubSeq(blobs', 1, k - 1), remote, max_size_mb))
        IN  pc' = out.pc /\ grouped_blobs' = out.grouped_blobs
    /\ UNCHANGED <<gcs_path, max_size_mb, num_threads, remote,
                   futures, work_queue, workers, idle, files, failed_transfers, collected, stdout>>

\* The listing and every size lookup succeed: the groups are built.
StartOk ==
    /\ pc = "start"
    /\ StartsWith(gcs_path, Scheme)
    /\ dest_exists' = TRUE
    /\ io' = io \cup (IF dest_exists THEN {"exists"} ELSE {"exists", "makedirs"})
                \cup {"ls"} \cup (IF Len(remote) > 0 THEN {"info"} ELSE {})
    /\ blobs' = [b \in DOMAIN remote |-> b]
    /\ grouped_blobs' = GroupBlobsBySize(blobs', remote, max_size_mb)
    /\ pc' = IF grouped_blobs' = <<>> THEN "collect" ELSE "submit"
    /\ UNCHANGED <<gcs_path, max_size_mb, num_threads, remote, error,
                   futures, work_queue, workers, idle, files, failed_transfers, collected, stdout>>

\* ---------------------------------------------------------------- ThreadPoolExecutor
\* Mutant: one thread per submitted task.
CanSpawnAlways(n, max_workers) == TRUE

\* _adjust_thread_count: a thread is started only below max_workers.
CanSpawn(n, max_workers) == n < max_workers

NewWorker == [state |-> "waiting", future |-> 0, pos |-> 0]

\* Mutant: the new work item goes to the front of the queue.
QueuePutFront(q, i) == <<i>> \o q

\* executor.submit: work_queue.put(w), at the back of the FIFO queue.
QueuePut(q, i) == Append(q, i)

\* "futures.append(executor.submit(download_group, fs, bucket_name, group, destination_folder))",
\* up to and including self._work_queue.put(w): a waiting worker may take the
\* item before the rest of submit runs.
Submit ==
    /\ pc = "submit"
    /\ LET i == Len(futures) + 1 IN
        /\ i <= Len(grouped_blobs)
        /\ futures' = Append(futures, [group |-> i, state |-> "PENDING", exception |-> NoExc, runs |-> 0])
        /\ work_queue' = QueuePut(work_queue, i)
    /\ pc' = "adjust"
    /\ UNCHANGED <<gcs_path, max_size_mb, num_threads, remote, dest_exists, io, error,
                   blobs, grouped_blobs, workers, idle, files, failed_transfers,
                   collected, stdout>>

\* The rest of submit, self._adjust_thread_count(): take the idle semaphore if
\* it can be had, else start a thread below max_workers; then the for loop
\* over grouped_blobs goes on or ends.
AdjustThreadCount ==
    /\ pc = "adjust"
    /\ IF idle > 0
       THEN idle' = idle - 1 /\ workers' = workers
       ELSE /\ idle' = idle
            /\ workers' = IF CanSpawn(Len(workers), num_threads)
                          THEN Append(workers, NewWorker) ELSE workers
    /\ pc' = IF Len(futures) = Len(grouped_blobs) THEN "collect" ELSE "submit"
    /\ UNCHANGED <<gcs_path, max_size_mb, num_threads, remote, dest_exists, io, error,
                   blobs, grouped_blobs, futures, work_queue, files, failed_transfers,
                   collected, stdout>>

\* Mutant: the item is read but stays in the queue.
QueueAfterPeek(q) == q

\* work_queue.get(): the item leaves the queue.
QueueAfterGet(q) == Tail(q)

\* _worker: a waiting thread takes the next work item from the queue.
WorkerGet(t) ==
    /\ workers[t].state = "waiting"
    /\ work_queue # <<>>
    /\ workers' = [workers EXCEPT ![t] = [state |-> "taken", future |-> Head(work_queue),
                                          pos |-> 0]]
    /\ work_queue' = QueueAfterGet(work_queue)
    /\ UNCHANGED <<gcs_path, max_size_mb, num_threads, remote, dest_exists, io, pc, error,
                   blobs, grouped_blobs, futures, idle, files, failed_transfers,
                   collected, stdout>>

\* _WorkItem.run: the thread that took the item marks the future running and
\* calls download_group; another thread may run between the take and this step.
WorkerStart(t) ==
    /\ workers[t].state = "taken"
    /\ futures' = [futures EXCEPT ![workers[t].future].state = "RUNNING",
                                  ![workers[t].future].runs = @ + 1]
    /\ workers' = [workers EXCEPT ![t].state = "running", ![t].pos = 1]
    /\ UNCHANGED <<gcs_path, max_size_mb, num_threads, remote, dest_exists, io, pc, error,
                   blobs, grouped_blobs, work_queue, idle, files, failed_transfers,
                   collected, stdout>>

\* ---------------------------------------------------------------- download_group
GroupOf(t) == grouped_blobs[futures[workers[t].future].group]

\* Mutant: the loop stops one object short.
GroupFinishedEarly(pos, group) == pos >= Len(group)

\* The for loop over the group's blobs is exhausted.
GroupFinished(pos, group) == pos > Len(group)

\* Mutant: the exception kills the worker before the future is completed.
SetExceptionLost(e) == [state |-> "RUNNING", exception |-> e]

\* _WorkItem.run: what the future holds once the call has raised e.
SetException(e) == [state |-> "FINISHED", exception |-> e]

\* Where an iteration of the loop can raise: in os.makedirs of the parent
\* directory (fs.open is never called), in fs.open, or, once the copy has
\* begun, in a read or a write.
RaisePoints(state) == IF state = "running" THEN {"makedirs", "open"} ELSE {"copy"}

\* The first part of an iteration: makedirs of the parent, fs.open and
\* open(destination_file_name, 'wb') succeed; nothing is copied yet.
TransferOpen(t) ==
    /\ workers[t].state = "running"
    /\ ~GroupFinished(workers[t].pos, GroupOf(t))
    /\ io' = io \cup {"open"}
    /\ workers' = [workers EXCEPT ![t].state = "copying"]
    /\ UNCHANGED <<gcs_path, max_size_mb, num_threads, remote, dest_exists, pc, error,
                   blobs, grouped_blobs, futures, work_queue, idle, files,
                   failed_transfers, collected, stdout>>

\* The copy loop of download_blob ends: the file is written in full and the
\* for loop of download_group moves to the next blob.
TransferOk(t) ==
    /\ workers[t].state = "copying"
    /\ LET b == GroupOf(t)[workers[t].pos] IN
        files' = [files EXCEPT ![DestinationFileName(b, ParseGcsPath(gcs_path))] = @ + 1]
    /\ workers' = [workers EXCEPT ![t].state = "running", ![t].pos = @ + 1]
    /\ UNCHANGED <<gcs_path, max_size_mb, num_threads, remote, dest_exists, io, pc, error,
                   blobs, grouped_blobs, futures, work_queue, idle, failed_transfers,
                   collected, stdout>>

\* Mutant: the exception is swallowed inside the loop, which goes on.
WorkerSkipsBlob(w) == [w EXCEPT !.state = "running", !.pos = @ + 1]

\* The exception leaves the for loop of download_group and work_item.run()
\* returns: the thread has not yet released the idle semaphore.
WorkerAfterRaise(w) == [w EXCEPT !.state = "done"]

\* One iteration raises: download_group ends, the future takes the exception.
TransferFails(t) ==
    /\ workers[t].state \in {"running", "copying"}
    /\ workers[t].state = "running" => ~GroupFinished(workers[t].pos, GroupOf(t))
    /\ LET b == GroupOf(t)[workers[t].pos]
           i == workers[t].future
           f == SetException([kind |-> "TransferError", blob |-> b])
       IN  /\ futures' = [futures EXCEPT ![i].state = f.state, ![i].exception = f.exception]
           /\ failed_transfers' = failed_transfers \cup {b}
    /\ \E p \in RaisePoints(workers[t].state) :
        io' = IF p = "open" THEN io \cup {"open"} ELSE io
    /\ workers' = [workers EXCEPT ![t] = WorkerAfterRaise(workers[t])]
    /\ UNCHANGED <<gcs_path, max_size_mb, num_threads, remote, dest_exists, pc, error,
                   blobs, grouped_blobs, work_queue, idle, files, collected, stdout>>

\* download_group returns: the future takes the result (set_result).
GroupDone(t) ==
    /\ workers[t].state = "running"
    /\ GroupFinished(workers[t].pos, GroupOf(t))
    /\ futures' = [futures EXCEPT ![workers[t].future].state = "FINISHED"]
    /\ workers' = [workers EXCEPT ![t].state = "done"]
    /\ UNCHANGED <<gcs_path, max_size_mb, num_threads, remote, dest_exists, io, pc, error,
                   blobs, grouped_blobs, work_queue, idle, files, failed_transfers,
                   collected, stdout>>

\* _worker, after work_item.run(): executor._idle_semaphore.release(), then
\* back to work_queue.get().
WorkerRelease(t) ==
    /\ workers[t].state = "done"
    /\ workers' = [workers EXCEPT ![t] = NewWorker]
    /\ idle' = idle + 1
    /\ UNCHANGED <<gcs_path, max_size_mb, num_threads, remote, dest_exists, io, pc, error,
                   blobs, grouped_blobs, futures, work_queue, files, failed_transfers,
                   collected, stdout>>

\* ---------------------------------------------------------------- download_all_files: the collection loop
\* Mutant: no try/except around future.result().
ExceptHandlerUncaught(e) == IF e # NoExc THEN "raised" ELSE "collect"

\* "except Exception as e": the loop goes on after a failed future.
ExceptHandler(e) == "collect"

\* Only a future that raised prints a line.
ShouldPrint(e) == e # NoExc

\* print(f"Error downloading files: {e}"): the line holds the error, no group index.
ErrorLine(i, e) == [group |-> NoGroup, error |-> e]

\* Mutant: as_completed yields a finished future again.
YieldedAgain(i, done) == TRUE

\* as_completed yields each future once: a yielded future leaves its pending set.
NotYetYielded(i, done) == i \notin Range(done)

\* "for future in tqdm(as_completed(futures))": a finished future is yielded.
Collect ==
    /\ pc = "collect"
    /\ \E i \in DOMAIN futures :
        /\ futures[i].state = "FINISHED"
        /\ NotYetYielded(i, collected)
        /\ collected' = Append(collected, i)
    /\ pc' = "result"
    /\ UNCHANGED <<gcs_path, max_size_mb, num_threads, remote, dest_exists, io, error,
                   blobs, grouped_blobs, futures, work_queue, workers, idle, files,
                   failed_transfers, stdout>>

\* The loop body for the yielded future: future.result(), and for a future
\* that raised, the except clause and its print.
FutureResult ==
    /\ pc = "result"
    /\ LET e == futures[collected[Len(collected)]].exception IN
        /\ stdout' = IF ShouldPrint(e)
                     THEN Append(stdout, ErrorLine(collected[Len(collected)], e))
                     ELSE stdout
        /\ pc' = ExceptHandler(e)
        /\ error' = IF pc' = "raised" THEN "TransferError" ELSE error
    /\ UNCHANGED <<gcs_path, max_size_mb, num_threads, remote, dest_exists, io,
                   blobs, grouped_blobs, futures, work_queue, workers, idle, files,
                   failed_transfers, collected>>

\* Mutant: the function returns from inside the loop, without waiting.
ReturnEnabledFirstDone == collected # <<>>

\* as_completed is exhausted and the with block's shutdown(wait=True) has joined.
ReturnEnabled ==
    /\ Len(collected) = Len(futures)
    /\ work_queue = <<>>
    /\ \A t \in DOMAIN workers : workers[t].state = "waiting"

Return ==
    /\ pc = "collect"
    /\ ReturnEnabled
    /\ pc' = "returned"
    /\ UNCHANGED <<gcs_path, max_size_mb, num_threads, remote, dest_exists, io, error,
                   blobs, grouped_blobs, futures, work_queue, workers, idle, files,
                   failed_transfers, collected, stdout>>

\* ---------------------------------------------------------------- specifications
MainStep ==
    \/ StartBadPath
    \/ StartListFails
    \/ StartSizeFails
    \/ StartOk
    \/ Submit
    \/ AdjustThreadCount
    \/ Collect
    \/ FutureResult
    \/ Return

WorkerStep(t) ==
    /\ t \in DOMAIN workers
    /\ \/ WorkerGet(t)
       \/ WorkerStart(t)
       \/ TransferOpen(t)
       \/ TransferOk(t)
       \/ TransferFails(t)
       \/ GroupDone(t)
       \/ WorkerRelease(t)

Next ==
    \/ MainStep
    \/ \E t \in DOMAIN workers : WorkerStep(t)

Spec == Init /\ [][Next]_vars

\* Every thread keeps running: the main thread, and each worker, whose single
\* object transfer eventually returns or raises.
FairSpec ==
    /\ Spec
    /\ WF_vars(MainStep)
    /\ \A t \in 1..MaxThreads : WF_vars(WorkerStep(t))

GroupNext == GroupCall \/ GroupCallFails

GroupSpec == GroupInit /\ [][GroupNext]_vars

\* ---------------------------------------------------------------- properties
Budget == MaxSizeBytes(max_size_mb)

Listing == [b \in DOMAIN remote |-> b]

FailedFutures == {i \in DOMAIN futures : futures[i].exception # NoExc}

RunningFutures == {i \in DOMAIN futures : futures[i].state = "RUNNING"}

\* The workers inside download_group.
RunningWorkers == {t \in DOMAIN workers : workers[t].state \in {"running", "copying"}}

LinesFor(e) == {k \in DOMAIN stdout : stdout[k].error = e}

\* The destination a listed object is expected at: the destination folder,
\* then the object's path below the bucket.
Mirrored(b) == <<"/", "d", "/", "p", "/", Names[b]>>

\* C1: every group returned by group_blobs_by_size has a total size within
\* the budget or is a singleton holding one object larger than the budget; an
\* object larger than the budget shares its group with no other object.
C1_GroupsWithinBudget ==
    \A g \in DOMAIN grouped_blobs :
        LET grp == grouped_blobs[g] IN
        /\ \/ SumSizes(grp, remote) <= Budget
           \/ Len(grp) = 1 /\ remote[grp[1]] > Budget
        /\ \A k \in DOMAIN grp : remote[grp[k]] > Budget => Len(grp) = 1

C1_Witness ==
    /\ pc = "group_returned"
    /\ \E g \in DOMAIN grouped_blobs :
        Len(grouped_blobs[g]) >= 2 /\ SumSizes(grouped_blobs[g], remote) = Budget
    /\ \E g \in DOMAIN grouped_blobs :
        Len(grouped_blobs[g]) = 1 /\ remote[grouped_blobs[g][1]] > Budget

\* C2: concatenating the groups returned by group_blobs_by_size, in group
\* order and then in intra-group order, gives exactly the input sequence.
C2_ConcatIsInput ==
    pc = "group_returned" => Concat(grouped_blobs) = Listing

C2_Witness ==
    /\ pc = "group_returned"
    /\ Len(grouped_blobs) >= 2
    /\ \E g \in DOMAIN grouped_blobs : Len(grouped_blobs[g]) >= 2
    /\ Len(grouped_blobs[Len(grouped_blobs)]) >= 1

\* C3: every group of the output holds at least one object, and no empty
\* group is dispatched to the worker pool.
C3_NoEmptyGroup ==
    /\ \A g \in DOMAIN grouped_blobs : grouped_blobs[g] # <<>>
    /\ \A i \in DOMAIN futures : grouped_blobs[futures[i].group] # <<>>

\* C4: a failing transfer is contained to its group: the run does not crash,
\* and when it has returned exactly the groups holding a failing object are
\* recorded as failed, while every other group ran and wrote all its objects.
C4_FailureContained ==
    /\ pc = "raised" => futures = <<>>
    /\ pc = "returned" =>
        /\ Len(futures) = Len(grouped_blobs)
        /\ \A g \in DOMAIN grouped_blobs :
            LET grp == grouped_blobs[g]
                f == futures[g]
            IN  /\ f.group = g
                /\ f.state = "FINISHED"
                /\ f.runs = 1
                /\ f.exception # NoExc <=> Range(grp) \cap failed_transfers # {}
                /\ f.exception # NoExc => Cardinality(LinesFor(f.exception)) = 1
                /\ Range(grp) \cap failed_transfers = {} =>
                    \A b \in Range(grp) :
                        files[DestinationFileName(b, ParseGcsPath(gcs_path))] = 1

C4_Witness ==
    /\ pc = "returned"
    /\ \E g1, g2 \in DOMAIN futures :
        /\ g1 < g2
        /\ futures[g1].exception # NoExc
        /\ futures[g2].exception = NoExc
        /\ grouped_blobs[g2] # <<>>
        /\ \A b \in Range(grouped_blobs[g2]) :
            files[DestinationFileName(b, ParseGcsPath(gcs_path))] = 1

\* C5: each group is submitted as exactly one task, each task is started at
\* most once (exactly once when the run has returned), and no two workers are
\* transferring the same group.
C5_OneTaskOneWorker ==
    /\ \A g \in DOMAIN grouped_blobs :
        LET tasks == {i \in DOMAIN futures : futures[i].group = g} IN
        /\ Cardinality(tasks) <= 1
        /\ pc \in {"collect", "returned"} => Cardinality(tasks) = 1
    /\ \A i \in DOMAIN futures :
        /\ futures[i].runs <= 1
        /\ pc = "returned" => futures[i].runs = 1
    /\ \A t1, t2 \in RunningWorkers :
        workers[t1].future = workers[t2].future => t1 = t2

C5_Witness ==
    /\ Cardinality(RunningWorkers) = 2
    /\ \E t1, t2 \in RunningWorkers :
        /\ futures[workers[t1].future].group # futures[workers[t2].future].group
        /\ workers[t1].pos = 1 /\ workers[t2].pos = 1

\* C6: in the state where download_all_files has returned, every group has a
\* task and no task is pending or running.
C6_ReturnsAfterAllTasks ==
    pc = "returned" =>
        /\ Len(futures) = Len(grouped_blobs)
        /\ \A i \in DOMAIN futures : futures[i].state = "FINISHED"
        /\ work_queue = <<>>
        /\ RunningWorkers = {}

C6_Witness ==
    /\ pc = "returned"
    /\ Len(futures) >= 2
    /\ FailedFutures # {}
    /\ collected[1] # 1

\* C7: under fair scheduling the call always ends, and once the groups are
\* built it returns, whichever transfers fail.
C7_RunCompletes ==
    /\ <>(pc \in {"returned", "raised"})
    /\ (pc \in {"submit", "collect"}) ~> (pc = "returned")

C7_Witness ==
    /\ pc = "returned"
    /\ Len(futures) >= 2
    /\ FailedFutures = DOMAIN futures

\* C8: when the run returns, the number of outcomes collected equals the number
\* of groups dispatched, and the failure list holds exactly one (group index,
\* error) pair for each failed group, naming that group, and none for the others.
C8_FailureListNamesGroups ==
    pc = "returned" =>
        /\ Len(collected) = Len(futures)
        /\ Len(stdout) = Cardinality(FailedFutures)
        /\ {<<stdout[k].group, stdout[k].error>> : k \in DOMAIN stdout}
             = {<<i, futures[i].exception>> : i \in FailedFutures}

\* C9: at most num_threads group transfers are in progress, on at most
\* num_threads workers, each running transfer on exactly one worker.
C9_AtMostWorkerCount ==
    /\ Cardinality(RunningFutures) <= num_threads
    /\ Cardinality(RunningWorkers) <= num_threads
    /\ Len(workers) <= num_threads
    /\ \A i \in RunningFutures :
        Cardinality({t \in RunningWorkers : workers[t].future = i}) = 1

C9_Witness ==
    /\ num_threads >= 2
    /\ Cardinality(RunningFutures) = num_threads
    /\ work_queue # <<>>
    /\ Len(grouped_blobs) > num_threads

\* C10: when the run returns and no transfer has failed, every listed object
\* has been written exactly once to its mirrored destination, every task
\* ended without error and no error line was printed.
C10_AllWrittenOnce ==
    (pc = "returned" /\ failed_transfers = {}) =>
        /\ \A b \in DOMAIN remote : Mirrored(b) \in DOMAIN files /\ files[Mirrored(b)] = 1
        /\ \A d \in DOMAIN files : files[d] = 1
        /\ Len(futures) = Len(grouped_blobs)
        /\ \A i \in DOMAIN futures :
            futures[i].state = "FINISHED" /\ futures[i].exception = NoExc
        /\ Len(collected) = Len(futures)
        /\ stdout = <<>>

C10_Witness ==
    /\ pc = "returned"
    /\ failed_transfers = {}
    /\ Len(remote) >= 2
    /\ Len(grouped_blobs) >= 2
    /\ num_threads = 2

Dest(b) == DestinationFileName(b, ParseGcsPath(gcs_path))

\* C11: a group's objects are transferred one after the other in group order;
\* when the k-th transfer fails the task ends as failed, the objects before k
\* stay written and no object from k on is written or attempted afterwards.
C11_GroupAbortsAtFailure ==
    LET loc == ParseGcsPath(gcs_path)
        written == [b \in DOMAIN remote |-> files[DestinationFileName(b, loc)]]
    IN  /\ \A t \in RunningWorkers :
            \A j \in DOMAIN GroupOf(t) :
                written[GroupOf(t)[j]] = IF j < workers[t].pos THEN 1 ELSE 0
        /\ \A i \in FailedFutures :
            LET grp == grouped_blobs[futures[i].group] IN
            /\ futures[i].state = "FINISHED"
            /\ \A t \in RunningWorkers : workers[t].future # i
            /\ \E k \in DOMAIN grp :
                /\ grp[k] = futures[i].exception.blob
                /\ \A j \in DOMAIN grp :
                    /\ written[grp[j]] = IF j < k THEN 1 ELSE 0
                    /\ j > k => grp[j] \notin failed_transfers

C11_Witness ==
    /\ pc = "returned"
    /\ \E i \in FailedFutures :
        LET grp == grouped_blobs[futures[i].group] IN
        /\ Len(grp) = 2
        /\ futures[i].exception.blob = grp[1]
        /\ files[Dest(grp[2])] = 0

\* C12: when the location string does not begin with gs://, the run fails
\* with the malformed-path error before any I/O: no destination directory has
\* been created, and nothing has been listed, sized or transferred.
C12_NoIoBeforeMalformedPath ==
    error = "ValueError" => io \cap {"makedirs", "ls", "info", "open"} = {}

\* C13: when a size lookup fails during the grouping pass, the run ends with
\* that error: no groups are returned, no task is submitted, no worker is
\* started and no object is transferred.
C13_SizeErrorIsFatal ==
    error = "MetadataError" =>
        /\ pc = "raised"
        /\ grouped_blobs = <<>>
        /\ futures = <<>>
        /\ work_queue = <<>>
        /\ workers = <<>>
        /\ "open" \notin io
        /\ failed_transfers = {}
        /\ \A d \in DOMAIN files : files[d] = 0

C13_Witness ==
    /\ error = "MetadataError"
    /\ pc = "raised"
    /\ Len(remote) >= 2
    /\ "info" \in io

\* C14: an empty object list yields an empty group sequence and no error.
C14_EmptyListNoGroups ==
    (pc = "group_returned" /\ remote = <<>>) =>
        grouped_blobs = <<>> /\ error = "none"

C14_Witness ==
    /\ pc = "group_returned"
    /\ remote = <<>>
    /\ grouped_blobs = <<>>

\* C15: N >= 1 objects, each of size exactly the byte budget, yield exactly N
\* groups of one object each, in listing order.
C15_BudgetSizedSingletons ==
    (pc = "group_returned" /\ remote # <<>> /\ \A b \in DOMAIN remote : remote[b] = Budget) =>
        grouped_blobs = [b \in DOMAIN remote |-> <<b>>]

C15_Witness ==
    /\ pc = "group_returned"
    /\ Len(remote) >= 3
    /\ \A b \in DOMAIN remote : remote[b] = Budget
    /\ Len(grouped_blobs) = Len(remote)

\* C16 as stated: a list whose sizes sum to at most the byte budget yields
\* exactly one group, holding the whole list in listing order.
C16_SmallListOneGroup ==
    (pc = "group_returned" /\ SumSizes(Listing, remote) <= Budget) =>
        grouped_blobs = <<Listing>>

\* C16 amended: a non-empty list whose sizes sum to at most the byte budget
\* yields exactly one group, holding the whole list in listing order.
C16_NonEmptySmallListOneGroup ==
    (pc = "group_returned" /\ remote # <<>> /\ SumSizes(Listing, remote) <= Budget) =>
        grouped_blobs = <<Listing>>

C16_Witness ==
    /\ pc = "group_returned"
    /\ Len(remote) >= 2
    /\ SumSizes(Listing, remote) = Budget
    /\ grouped_blobs = <<Listing>>

\* C20: for every two consecutive groups, the total size of the first plus
\* the size of the first member of the second exceeds the byte budget.
C20_GreedyMaximal ==
    \A k \in DOMAIN grouped_blobs :
        k < Len(grouped_blobs) =>
            /\ grouped_blobs[k + 1] # <<>>
            /\ SumSizes(grouped_blobs[k], remote) + remote[grouped_blobs[k + 1][1]] > Budget

C20_Witness ==
    /\ pc = "group_returned"
    /\ Len(grouped_blobs) >= 3
    /\ Len(grouped_blobs[1]) >= 2
    /\ SumSizes(grouped_blobs[1], remote) < Budget

\* The workers that are inside an iteration of download_group's loop.
WritingWorkers ==
    {t \in RunningWorkers : ~GroupFinished(workers[t].pos, GroupOf(t))}

\* C17: with pairwise distinct object paths, two different groups share no
\* destination file, no two workers are writing the same destination file,
\* and no destination file is written twice.
C17_DisjointDestinations ==
    LET loc == ParseGcsPath(gcs_path)
        dest == [b \in DOMAIN remote |-> DestinationFileName(b, loc)]
    IN  /\ \A g1, g2 \in DOMAIN grouped_blobs :
            g1 < g2 =>
                \A k1 \in DOMAIN grouped_blobs[g1], k2 \in DOMAIN grouped_blobs[g2] :
                    dest[grouped_blobs[g1][k1]] # dest[grouped_blobs[g2][k2]]
        /\ \A t1, t2 \in WritingWorkers :
            t1 # t2 => dest[GroupOf(t1)[workers[t1].pos]] # dest[GroupOf(t2)[workers[t2].pos]]
        /\ \A d \in DOMAIN files : files[d] <= 1

C17_Witness ==
    /\ Cardinality(WritingWorkers) = 2
    /\ \E t1, t2 \in WritingWorkers :
        /\ workers[t1].state = "copying" /\ workers[t2].state = "copying"
        /\ futures[workers[t1].future].group # futures[workers[t2].future].group
        /\ GroupOf(t1)[workers[t1].pos] # GroupOf(t2)[workers[t2].pos]

\* The submitted tasks a worker has taken from the queue.
Taken == DOMAIN futures \ Range(work_queue)

\* C18 as stated: tasks are submitted in group order, and for groups i < j the
\* transfer of group i never starts after the transfer of group j has started.
C18_StartOrderFollowsGroups ==
    /\ \A i \in DOMAIN futures : futures[i].group = i
    /\ \A i, j \in DOMAIN futures :
        (i < j /\ futures[j].runs >= 1) => futures[i].runs >= 1

\* C18 amended: tasks are submitted in group order and leave the pool's queue
\* in that order, and with a single worker the transfers start in that order.
C18_DispatchOrderFollowsGroups ==
    /\ \A i \in DOMAIN futures : futures[i].group = i
    /\ \A k1, k2 \in DOMAIN work_queue : k1 < k2 => work_queue[k1] < work_queue[k2]
    /\ \A i, j \in DOMAIN futures : (i < j /\ j \in Taken) => i \in Taken
    /\ num_threads = 1 =>
        \A i, j \in DOMAIN futures :
            (i < j /\ futures[j].runs >= 1) => futures[i].state = "FINISHED"

C18_Witness ==
    \E i, j \in DOMAIN futures :
        /\ i < j
        /\ futures[j].state = "FINISHED"
        /\ futures[i].state = "RUNNING"
        /\ grouped_blobs[j] # <<>>

\* The yielded futures whose loop body has run: all of them, but the last one
\* while the main thread is between the yield and the end of the body.
Handled == IF pc = "result" THEN SubSeq(collected, 1, Len(collected) - 1) ELSE collected

\* C19: every task outcome is collected exactly once, whatever the completion
\* order: no future is yielded twice, only finished futures are yielded, one
\* error line is printed per failure whose loop body has run, and none is left
\* at the return.
C19_EachOutcomeCollectedOnce ==
    /\ \A k1, k2 \in DOMAIN collected : k1 # k2 => collected[k1] # collected[k2]
    /\ \A k \in DOMAIN collected :
        collected[k] \in DOMAIN futures /\ futures[collected[k]].state = "FINISHED"
    /\ Len(stdout) = Cardinality({k \in DOMAIN Handled : Handled[k] \in FailedFutures})
    /\ pc = "returned" => Range(collected) = DOMAIN futures /\ Handled = collected

C19_Witness ==
    /\ pc = "returned"
    /\ Len(collected) >= 3
    /\ collected[1] > collected[2]
    /\ FailedFutures # {}
    /\ FailedFutures # DOMAIN futures

====
